---- MODULE Spec2Model ----
(***************************************************************************)
(* Model of the ShopEasy service worker (src/unnamed/part_001, the worker  *)
(* with APP_VERSION '1.0.1', lines 97-428).                                *)
(*                                                                         *)
(* State: the origin's CacheStorage (named stores in creation order), the  *)
(* worker's lifecycle phase as driven by the host, the install and         *)
(* activate tasks, the fetch tasks with their suspension points, the       *)
(* cache.put calls that were issued and not yet settled, and the           *)
(* CLEAR_CACHE jobs started by messages.                                   *)
(*                                                                         *)
(* The environment (network outcomes, store open/put failures, the order   *)
(* in which suspended tasks resume, the events the host dispatches) is     *)
(* nondeterministic.                                                       *)
(***************************************************************************)
EXTENDS Integers, Sequences, FiniteSets, TLC

\* ---------------------------------------------------------------- bounds
MaxEvents == 2     \* fetch and message events dispatched in one behaviour
MaxBody   == 2     \* distinct bodies the network may serve for one URL

\* ------------------------------------------------------- program constants
CACHE_NAME    == "shopeasy-v1.0.1"
DYNAMIC_CACHE == "shopeasy-dynamic-v1"
APP_VERSION   == "1.0.1"

\* Store names left on the origin by earlier generations.
OLD_CACHE   == "shopeasy-v3"
OTHER_CACHE == "shopeasy-v1.0.0"

\* ------------------------------------------------------------------ URLs
\* A URL is its hostname, the last path segment without extension, the
\* extension at the end of the path, and whether a query string follows.
SelfHost      == "shop.example"
FirestoreHost == "firestore.googleapis.com"
StorageHost   == "firebasestorage.googleapis.com"

Url(h, s, e, q) == [host |-> h, stem |-> s, ext |-> e, query |-> q]

RootUrl     == Url(SelfHost, "", "", FALSE)
IndexUrl    == Url(SelfHost, "index", "html", FALSE)
LogoUrl     == Url(SelfHost, "logo", "png", FALSE)
ManifestUrl == Url(SelfHost, "manifest", "json", FALSE)
FaCssUrl    == Url("cdnjs.cloudflare.com", "all.min", "css", FALSE)
FbAppUrl    == Url("www.gstatic.com", "firebase-app", "js", FALSE)
FbStoreUrl  == Url("www.gstatic.com", "firebase-firestore", "js", FALSE)

STATIC_ASSETS ==
    {RootUrl, IndexUrl, LogoUrl, ManifestUrl, FaCssUrl, FbAppUrl, FbStoreUrl}

\* String.prototype.includes on the serialized URL, for the needles the
\* worker uses: each is a whole hostname or a whole path segment here.
UrlIncludes(u, needle) == needle = u.host \/ needle = u.stem

\* url.match(/\.(e1|e2|...)$/): the regular expression is anchored at the end
\* of the whole URL string, so a query string after the path defeats it.
UrlEndsWithExt(u, exts) == ~u.query /\ u.ext \in exts

\* -------------------------------------------------------------- responses
EmptyBody       == 0
Bodies          == 1..MaxBody
NoopScriptBody  == -1
PlaceholderSvg  == -2
EmptyJsonArray  == -3

Resp(st, ct, b) == [status |-> st, ctype |-> ct, body |-> b]

\* Response.ok
Ok(r) == r.status >= 200 /\ r.status <= 299

\* What the origin server declares for a URL.
ServerType(u) ==
    CASE u.ext = "css"  -> "text/css"
      [] u.ext = "js"   -> "application/javascript"
      [] u.ext \in {"woff", "woff2"} -> "font/woff2"
      [] u.ext \in {"png", "jpg", "jpeg", "gif", "svg", "webp"} -> "image/" \o u.ext
      [] u.ext = "json" -> "application/json"
      [] u.host \in {FirestoreHost, StorageHost} -> "application/json"
      [] OTHER -> "text/html"

\* The responses fetch() may resolve with for a URL.
NetResponses(u) ==
    {Resp(200, ServerType(u), b) : b \in Bodies} \cup {Resp(404, "text/html", EmptyBody)}

Absent == Resp(0, "", EmptyBody)

\* ---------------------------------------------------------- CacheStorage
\* The stores in creation order; each has a name, an identity (a handle
\* obtained from caches.open keeps designating the same store after that
\* name is deleted) and its entries, a function from URL to response.
NoEntries == [u \in {} |-> Absent]

StoreNames(c) == {c[i].name : i \in DOMAIN c}

\* caches.keys()
CacheKeys(c) == StoreNames(c)

\* caches.open(name): creates the store when absent
CacheOpen(c, name, id) ==
    IF name \in StoreNames(c) THEN c
    ELSE Append(c, [name |-> name, id |-> id, entries |-> NoEntries])

StoreIndex(c, name) == (CHOOSE i \in DOMAIN c : c[i].name = name)

\* caches.delete(name)
CacheDelete(c, name) == SelectSeq(c, LAMBDA s : s.name # name)

EntryPut(e, u, r) == [k \in DOMAIN e \cup {u} |-> IF k = u THEN r ELSE e[k]]

\* cache.put(request, response) on the store a handle designates; a store
\* that was deleted meanwhile is no longer in CacheStorage.
CachePut(c, id, u, r) ==
    [i \in DOMAIN c |->
        IF c[i].id = id THEN [c[i] EXCEPT !.entries = EntryPut(@, u, r)] ELSE c[i]]

Holders(c, u) == {i \in DOMAIN c : u \in DOMAIN c[i].entries}

\* caches.match(request): the entry of the first store, in creation order,
\* that has one; Absent stands for undefined.
CacheMatch(c, u) ==
    IF Holders(c, u) = {} THEN Absent
    ELSE LET i == CHOOSE i \in Holders(c, u) : \A j \in Holders(c, u) : i <= j
         IN  c[i].entries[u]

CachePutAll(c, id, e) ==
    [i \in DOMAIN c |->
        IF c[i].id = id
        THEN [c[i] EXCEPT !.entries =
                 [k \in DOMAIN @ \cup DOMAIN e |-> IF k \in DOMAIN e THEN e[k] ELSE @[k]]]
        ELSE c[i]]

\* -------------------------------------------------------------- requests
Req(m, h, u) == [method |-> m, html |-> h, url |-> u]

AboutUrl    == Url(SelfHost, "about", "", FALSE)
StyleUrl    == Url(SelfHost, "style", "css", FALSE)
StyleVerUrl == Url(SelfHost, "style", "css", TRUE)
AppJsUrl    == Url(SelfHost, "app", "js", FALSE)
FontUrl     == Url(SelfHost, "font", "woff2", FALSE)
PhotoUrl    == Url(SelfHost, "photo", "jpg", FALSE)
PostimgUrl  == Url("postimg.cc", "product", "png", FALSE)
ProductsUrl == Url(FirestoreHost, "products", "", FALSE)
BucketUrl   == Url(StorageHost, "o", "", FALSE)
BucketImgUrl == Url(StorageHost, "photo", "png", FALSE)
OrdersUrl   == Url(SelfHost, "orders", "", FALSE)

\* The request descriptors a page may issue, grouped by the store keys
\* their strategies read and write: tasks interact only through the entry
\* of their own URL, the root document, logo.png and the dynamic store.
Navigation == { Req("GET", TRUE, RootUrl), Req("GET", TRUE, AboutUrl),
                Req("GET", FALSE, OrdersUrl), Req("POST", FALSE, OrdersUrl) }
Assets     == { Req("GET", FALSE, StyleUrl), Req("GET", TRUE, StyleUrl),
                Req("GET", FALSE, StyleVerUrl), Req("GET", FALSE, AppJsUrl),
                Req("GET", FALSE, FontUrl) }
Images     == { Req("GET", FALSE, LogoUrl), Req("GET", FALSE, PhotoUrl),
                Req("GET", FALSE, PostimgUrl), Req("GET", FALSE, BucketImgUrl) }
Data       == { Req("GET", FALSE, ProductsUrl), Req("GET", FALSE, BucketUrl),
                Req("GET", FALSE, OrdersUrl) }

Pages == {Navigation, Assets, Images, Data}

\* ---------------------------------------------------------- push payloads
\* What a push event carries: no data; data that is not JSON; the JSON
\* value null; or a JSON object, whose title and url are "" when absent.
Payload(k, t, u) == [kind |-> k, title |-> t, url |-> u]

NoPush       == Payload("none", "", "")
PushObjects  == {Payload("object", "", ""), Payload("object", "Sale", "/orders")}
PushPayloads == {Payload(k, "", "") : k \in {"nodata", "malformed", "null"}}
                    \cup PushObjects

\* ----------------------------------------------------------------- state
VARIABLES
    page,          \* the requests the controlled page issues
    caches,        \* CacheStorage: the stores, in creation order
    nextId,        \* identity given to the next store created
    phase,         \* lifecycle state of this generation, set by the host
    installs,      \* install events dispatched to this generation's script
    inst,          \* the install handler's task
    act,           \* the activate handler's task
    skipWaiting,   \* self.skipWaiting() was called
    claimed,       \* self.clients.claim() was called
    tasks,         \* the strategy task of every fetch event responded to
    puts,          \* cache.put calls issued and not yet settled
    fetchCount,    \* number of fetch() calls made by the strategies
    declined,      \* fetch events the handler returned from without responding
    clears,        \* the CLEAR_CACHE jobs started by message events
    msgs,          \* message events handled
    lastMsg,       \* what the latest message event carried
    posted,        \* messages posted to event.source
    msgError,      \* the message handler threw
    pushes,        \* push events handled
    lastPush,      \* what the latest push event carried
    shown,         \* the notifications shown, in order
    pushError      \* the push handler threw

vars == <<page, caches, nextId, phase, installs, inst, act, skipWaiting, claimed, tasks, puts,
          fetchCount, declined, clears, msgs, lastMsg, posted, msgError,
          pushes, lastPush, shown, pushError>>

lifecycle == <<page, phase, installs, inst, act, skipWaiting, claimed>>
fetching  == <<tasks, puts, fetchCount, declined>>
messaging == <<clears, msgs, lastMsg, posted, msgError>>
pushing   == <<pushes, lastPush, shown, pushError>>

\* Events dispatched so far: fetch events responded to or declined, messages,
\* pushes, and install events after the first.
Events ==
    Len(tasks) + declined + msgs + pushes + (IF installs > 1 THEN installs - 1 ELSE 0)

\* ------------------------------------------------------------------ Init
Store(n, id, e) == [name |-> n, id |-> id, entries |-> e]

OldStore     == Store(OLD_CACHE, 1, [u \in {RootUrl} |-> Resp(200, "text/html", 1)])
OtherStore   == Store(OTHER_CACHE, 2, [u \in {LogoUrl} |-> Resp(200, "image/png", 1)])
DynamicStore == Store(DYNAMIC_CACHE, 3,
                      [u \in {OrdersUrl} |-> Resp(200, "text/html", 1)])

\* What earlier generations may have left on the origin.
InitialCaches ==
    { SelectSeq(<<OldStore, OtherStore, DynamicStore>>, LAMBDA s : s.name \in keep) :
        keep \in SUBSET {OLD_CACHE, OTHER_CACHE, DYNAMIC_CACHE} }

Init ==
    /\ page \in Pages
    /\ caches \in InitialCaches
    /\ nextId = 4
    /\ phase = "parsed"
    /\ installs = 0
    /\ inst = [pc |-> "idle", id |-> 0, assetFailed |-> FALSE]
    /\ act = [pc |-> "idle", names |-> {}, pending |-> {}]
    /\ skipWaiting = FALSE
    /\ claimed = FALSE
    /\ tasks = <<>>
    /\ puts = {}
    /\ fetchCount = 0
    /\ declined = 0
    /\ clears = <<>>
    /\ msgs = 0
    /\ lastMsg = "none"
    /\ posted = <<>>
    /\ msgError = FALSE
    /\ pushes = 0
    /\ lastPush = NoPush
    /\ shown = <<>>
    /\ pushError = FALSE

\* ------------------------------------------------------- install handler
\* The host dispatches the install event.
HostInstall ==
    /\ phase = "parsed"
    /\ phase' = "installing"
    /\ installs' = 1
    /\ inst' = [inst EXCEPT !.pc = "open"]
    /\ UNCHANGED <<page, caches, nextId, act, skipWaiting, claimed, fetching, messaging, pushing>>

\* The host installs the same script again (the page registers it anew, or
\* an update left APP_VERSION and STATIC_ASSETS as they were): a fresh
\* instance runs the install handler while the tasks already started go on.
\* inst.assetFailed keeps telling whether some run's addAll was rejected.
HostReinstall ==
    /\ phase = "activated"
    /\ Events < MaxEvents
    /\ phase' = "installing"
    /\ installs' = installs + 1
    /\ inst' = [inst EXCEPT !.pc = "open", !.id = 0]
    /\ act' = [pc |-> "idle", names |-> {}, pending |-> {}]
    /\ skipWaiting' = FALSE
    /\ claimed' = FALSE
    /\ UNCHANGED <<page, caches, nextId, fetching, messaging, pushing>>

\* caches.open(CACHE_NAME)
InstallOpen ==
    /\ inst.pc = "open"
    /\ caches' = CacheOpen(caches, CACHE_NAME, nextId)
    /\ nextId' = IF CACHE_NAME \in StoreNames(caches) THEN nextId ELSE nextId + 1
    /\ inst' = [inst EXCEPT !.pc = "addAll",
                            !.id = caches'[StoreIndex(caches', CACHE_NAME)].id]
    /\ UNCHANGED <<page, installs, phase, act, skipWaiting, claimed, fetching, messaging, pushing>>

ManifestEntries_LocalOnly(b) ==
    [u \in {v \in STATIC_ASSETS : v.host = SelfHost} |-> Resp(200, ServerType(u), b)]

ManifestEntries(b) == [u \in STATIC_ASSETS |-> Resp(200, ServerType(u), b)]

\* cache.addAll(STATIC_ASSETS) resolves: every asset was fetched with an ok
\* status and all entries are written together.
InstallAddAllOk ==
    /\ inst.pc = "addAll"
    /\ \E b \in Bodies : caches' = CachePutAll(caches, inst.id, ManifestEntries(b))
    /\ inst' = [inst EXCEPT !.pc = "skipWaiting"]
    /\ UNCHANGED <<page, installs, nextId, phase, act, skipWaiting, claimed, fetching, messaging, pushing>>

\* cache.addAll rejects: some asset failed to fetch; nothing is written.
InstallAddAllFail ==
    /\ inst.pc = "addAll"
    /\ inst' = [inst EXCEPT !.pc = "catch", !.assetFailed = TRUE]
    /\ UNCHANGED <<page, installs, caches, nextId, phase, act, skipWaiting, claimed, fetching, messaging, pushing>>

\* .then(() => self.skipWaiting())
InstallSkipWaiting ==
    /\ inst.pc = "skipWaiting"
    /\ skipWaiting' = TRUE
    /\ inst' = [inst EXCEPT !.pc = "resolved"]
    /\ UNCHANGED <<page, installs, caches, nextId, phase, act, claimed, fetching, messaging, pushing>>

\* The state of the promise given to event.waitUntil once the rejection of
\* addAll reached the end of the chain: .catch(console.error) returns
\* normally, so the chain resolves.
InstallCatchSettles == "resolved"

InstallCatch ==
    /\ inst.pc = "catch"
    /\ inst' = [inst EXCEPT !.pc = InstallCatchSettles]
    /\ UNCHANGED <<page, installs, caches, nextId, phase, act, skipWaiting, claimed, fetching, messaging, pushing>>

\* The host settles the install phase on the waitUntil promise.
HostInstallSettled ==
    /\ phase = "installing"
    /\ inst.pc \in {"resolved", "rejected"}
    /\ phase' = IF inst.pc = "resolved" THEN "installed" ELSE "redundant"
    /\ UNCHANGED <<page, installs, caches, nextId, inst, act, skipWaiting, claimed, fetching, messaging, pushing>>

\* ------------------------------------------------------ activate handler
\* The host dispatches the activate event to the waiting generation.
HostActivate ==
    /\ phase = "installed"
    /\ phase' = "activating"
    /\ act' = [act EXCEPT !.pc = "keys"]
    /\ UNCHANGED <<page, installs, caches, nextId, inst, skipWaiting, claimed, fetching, messaging, pushing>>

IsStale_KeepsOnlyStatic(name) == name # CACHE_NAME

\* cacheName !== CACHE_NAME && cacheName !== DYNAMIC_CACHE
IsStale(name) == name # CACHE_NAME /\ name # DYNAMIC_CACHE

\* caches.keys() resolves; one caches.delete per stale name is started.
ActivateKeys ==
    /\ act.pc = "keys"
    /\ act' = [pc |-> "deleting", names |-> CacheKeys(caches),
               pending |-> {n \in CacheKeys(caches) : IsStale(n)}]
    /\ UNCHANGED <<page, installs, caches, nextId, phase, inst, skipWaiting, claimed, fetching, messaging, pushing>>

\* One of the started deletions completes.
ActivateDelete ==
    /\ act.pc = "deleting"
    /\ \E n \in act.pending :
        /\ caches' = CacheDelete(caches, n)
        /\ act' = [act EXCEPT !.pending = @ \ {n}]
    /\ UNCHANGED <<page, installs, nextId, phase, inst, skipWaiting, claimed, fetching, messaging, pushing>>

\* Promise.all resolved: .then(() => self.clients.claim())
ActivateClaim ==
    /\ act.pc = "deleting"
    /\ act.pending = {}
    /\ claimed' = TRUE
    /\ act' = [act EXCEPT !.pc = "resolved", !.names = {}]
    /\ UNCHANGED <<page, installs, caches, nextId, phase, inst, skipWaiting, fetching, messaging, pushing>>

HostActivated ==
    /\ phase = "activating"
    /\ act.pc = "resolved"
    /\ phase' = "activated"
    /\ UNCHANGED <<page, installs, caches, nextId, inst, act, skipWaiting, claimed, fetching, messaging, pushing>>

\* ---------------------------------------------------------- fetch handler
CssJsFontExts == {"css", "js", "woff", "woff2"}
ImageExts     == {"png", "jpg", "jpeg", "gif", "svg", "webp"}

\* The if / else-if chain of the fetch handler for a GET request.
Route(r) ==
    IF r.html THEN "networkFirst"
    ELSE IF UrlEndsWithExt(r.url, CssJsFontExts) THEN "cacheFirst"
    ELSE IF UrlEndsWithExt(r.url, ImageExts) THEN "imageCacheFirst"
    ELSE IF r.url.host = FirestoreHost \/ r.url.host = StorageHost
         THEN "networkFirstWithCacheUpdate"
    ELSE "networkFirst"

Declines_Never(r) == FALSE

\* event.request.method !== 'GET': return without event.respondWith
Declines(r) == r.method # "GET"

\* Where each strategy starts: the cache-first ones with caches.match,
\* the network-first ones with fetch.
FirstStep(strategy) ==
    IF strategy \in {"cacheFirst", "imageCacheFirst"} THEN "match" ELSE "fetch"

NewTask(r) ==
    [req |-> r, strategy |-> Route(r), pc |-> FirstStep(Route(r)),
     net |-> Absent, fetched |-> FALSE, hit |-> FALSE, storeFailed |-> FALSE,
     outcome |-> "pending", resp |-> Absent]

\* The host dispatches a fetch event to the active instance: this one, or
\* while a later instance of the script installs, the one before it.
FetchEvent ==
    /\ phase = "activated" \/ installs > 1
    /\ Events < MaxEvents
    /\ \E r \in page :
        IF Declines(r)
        THEN /\ declined' = declined + 1
             /\ UNCHANGED tasks
        ELSE /\ tasks' = Append(tasks, NewTask(r))
             /\ UNCHANGED declined
    /\ UNCHANGED <<caches, nextId, lifecycle, puts, fetchCount, messaging, pushing>>

\* -------------------------------------------------------------- strategies
\* How a task ends: with a response, with undefined, or by throwing.
Returns(t, r) ==
    [t EXCEPT !.pc = "done",
              !.outcome = IF r = Absent THEN "undefined" ELSE "response",
              !.resp = r]

Throws(t) == [t EXCEPT !.pc = "done", !.outcome = "error"]

CssFallback   == Resp(200, "text/css", EmptyBody)
JsFallback    == Resp(200, "application/javascript", NoopScriptBody)
SvgFallback   == Resp(200, "image/svg+xml", PlaceholderSvg)
EmptyListing  == Resp(200, "application/json", EmptyJsonArray)

CacheFirstCatch_AlwaysThrows(t) == Throws(t)

\* catch block of cacheFirst
CacheFirstCatch(t) ==
    IF UrlEndsWithExt(t.req.url, {"css"}) THEN Returns(t, CssFallback)
    ELSE IF UrlEndsWithExt(t.req.url, {"js"}) THEN Returns(t, JsFallback)
    ELSE Throws(t)

\* catch block of imageCacheFirst, up to its first suspension
ImageCatch(t) ==
    IF UrlIncludes(t.req.url, "placeholder") \/ UrlIncludes(t.req.url, "postimg.cc")
    THEN [t EXCEPT !.pc = "logo"]
    ELSE Returns(t, SvgFallback)

\* Entering the catch block of a strategy: the network-first ones await
\* caches.match(request) first.
Catch(t) ==
    CASE t.strategy = "cacheFirst"      -> CacheFirstCatch(t)
      [] t.strategy = "imageCacheFirst" -> ImageCatch(t)
      [] OTHER                          -> [t EXCEPT !.pc = "fallback"]

\* Whether a strategy stores the response it fetched: the cache-first ones
\* test networkResponse.ok, the network-first ones store unconditionally.
Stores(t, r) ==
    IF t.strategy \in {"cacheFirst", "imageCacheFirst"} THEN Ok(r) ELSE TRUE

TaskMatch_IgnoresEntry(i) ==
    /\ tasks[i].pc = "match"
    /\ tasks' = [tasks EXCEPT ![i].pc = "fetch"]
    /\ UNCHANGED <<caches, nextId, lifecycle, puts, fetchCount, declined, messaging, pushing>>

\* cacheFirst / imageCacheFirst: await caches.match(request)
TaskMatch(i) ==
    /\ tasks[i].pc = "match"
    /\ LET m == CacheMatch(caches, tasks[i].req.url)
       IN  tasks' = [tasks EXCEPT ![i] =
              IF m # Absent THEN Returns([@ EXCEPT !.hit = TRUE], m)
              ELSE [@ EXCEPT !.pc = "fetch"]]
    /\ UNCHANGED <<caches, nextId, lifecycle, puts, fetchCount, declined, messaging, pushing>>

\* await fetch(request) resolves with a response of any status
TaskFetchOk(i) ==
    /\ tasks[i].pc = "fetch"
    /\ \E r \in NetResponses(tasks[i].req.url) :
        tasks' = [tasks EXCEPT ![i] =
            LET t == [@ EXCEPT !.net = r, !.fetched = TRUE]
            IN  IF Stores(t, r) THEN [t EXCEPT !.pc = "open"] ELSE Returns(t, r)]
    /\ fetchCount' = fetchCount + 1
    /\ UNCHANGED <<caches, nextId, lifecycle, puts, declined, messaging, pushing>>

\* await fetch(request) rejects
TaskFetchFail(i) ==
    /\ tasks[i].pc = "fetch"
    /\ tasks' = [tasks EXCEPT ![i] = Catch([@ EXCEPT !.fetched = TRUE])]
    /\ fetchCount' = fetchCount + 1
    /\ UNCHANGED <<caches, nextId, lifecycle, puts, declined, messaging, pushing>>

TaskOpenOk_OpensStatic(i) ==
    /\ tasks[i].pc = "open"
    /\ caches' = CacheOpen(caches, CACHE_NAME, nextId)
    /\ nextId' = IF CACHE_NAME \in StoreNames(caches) THEN nextId ELSE nextId + 1
    /\ puts' = puts \cup {[task |-> i,
                           id |-> caches'[StoreIndex(caches', CACHE_NAME)].id,
                           url |-> tasks[i].req.url, resp |-> tasks[i].net]}
    /\ tasks' = [tasks EXCEPT ![i] = Returns(@, @.net)]
    /\ UNCHANGED <<lifecycle, fetchCount, declined, messaging, pushing>>

TaskOpenOk_StoresDrainedBody(i) ==
    /\ tasks[i].pc = "open"
    /\ caches' = CacheOpen(caches, DYNAMIC_CACHE, nextId)
    /\ nextId' = IF DYNAMIC_CACHE \in StoreNames(caches) THEN nextId ELSE nextId + 1
    /\ puts' = puts \cup {[task |-> i,
                           id |-> caches'[StoreIndex(caches', DYNAMIC_CACHE)].id,
                           url |-> tasks[i].req.url,
                           resp |-> [tasks[i].net EXCEPT !.body = EmptyBody]]}
    /\ tasks' = [tasks EXCEPT ![i] = Returns(@, @.net)]
    /\ UNCHANGED <<lifecycle, fetchCount, declined, messaging, pushing>>

\* await caches.open(DYNAMIC_CACHE) resolves; cache.put(request, clone) is
\* called without await and the network response is returned.
TaskOpenOk(i) ==
    /\ tasks[i].pc = "open"
    /\ caches' = CacheOpen(caches, DYNAMIC_CACHE, nextId)
    /\ nextId' = IF DYNAMIC_CACHE \in StoreNames(caches) THEN nextId ELSE nextId + 1
    /\ puts' = puts \cup {[task |-> i,
                           id |-> caches'[StoreIndex(caches', DYNAMIC_CACHE)].id,
                           url |-> tasks[i].req.url, resp |-> tasks[i].net]}
    /\ tasks' = [tasks EXCEPT ![i] = Returns(@, @.net)]
    /\ UNCHANGED <<lifecycle, fetchCount, declined, messaging, pushing>>

\* await caches.open(DYNAMIC_CACHE) rejects inside the try block
TaskOpenFail(i) ==
    /\ tasks[i].pc = "open"
    /\ tasks' = [tasks EXCEPT ![i] = Catch([@ EXCEPT !.storeFailed = TRUE])]
    /\ UNCHANGED <<caches, nextId, lifecycle, puts, fetchCount, declined, messaging, pushing>>

NetworkFirstCatch_RootForAll(t, m) ==
    IF m # Absent THEN Returns(t, m) ELSE [t EXCEPT !.pc = "root"]

\* catch block of networkFirst after caches.match(request) resolved
NetworkFirstCatch(t, m) ==
    IF m # Absent THEN Returns(t, m)
    ELSE IF t.req.html THEN [t EXCEPT !.pc = "root"]
    ELSE Throws(t)

CacheUpdateCatch_AlwaysThrows(t, m) ==
    IF m # Absent THEN Returns(t, m) ELSE Throws(t)

\* catch block of networkFirstWithCacheUpdate after caches.match resolved
CacheUpdateCatch(t, m) ==
    IF m # Absent THEN Returns(t, m)
    ELSE IF UrlIncludes(t.req.url, "firestore.googleapis.com")
         THEN Returns(t, EmptyListing)
    ELSE Throws(t)

\* networkFirst / networkFirstWithCacheUpdate: await caches.match(request)
TaskFallback(i) ==
    /\ tasks[i].pc = "fallback"
    /\ LET m == CacheMatch(caches, tasks[i].req.url)
       IN  tasks' = [tasks EXCEPT ![i] =
              IF @.strategy = "networkFirst" THEN NetworkFirstCatch(@, m)
              ELSE CacheUpdateCatch(@, m)]
    /\ UNCHANGED <<caches, nextId, lifecycle, puts, fetchCount, declined, messaging, pushing>>

\* networkFirst: return caches.match('/')
TaskRoot(i) ==
    /\ tasks[i].pc = "root"
    /\ tasks' = [tasks EXCEPT ![i] = Returns(@, CacheMatch(caches, RootUrl))]
    /\ UNCHANGED <<caches, nextId, lifecycle, puts, fetchCount, declined, messaging, pushing>>

\* imageCacheFirst: return caches.match('logo.png')
TaskLogo(i) ==
    /\ tasks[i].pc = "logo"
    /\ tasks' = [tasks EXCEPT ![i] = Returns(@, CacheMatch(caches, LogoUrl))]
    /\ UNCHANGED <<caches, nextId, lifecycle, puts, fetchCount, declined, messaging, pushing>>

\* A cache.put issued earlier settles: the entry is written, or the write
\* fails and its rejection goes unobserved.
PutSettles ==
    /\ \E p \in puts :
        /\ puts' = puts \ {p}
        /\ \/ caches' = CachePut(caches, p.id, p.url, p.resp)
           \/ UNCHANGED caches
    /\ UNCHANGED <<nextId, lifecycle, tasks, fetchCount, declined, messaging, pushing>>

\* -------------------------------------------------------- message handler
\* What a message event carries: data with one of the three actions the
\* handler knows, data with any other action or with none ("ping"), or no
\* data at all ("nodata").
MsgKinds == {"skipWaiting", "CLEAR_CACHE", "versionCheck", "ping", "nodata"}

VersionResponse_CacheName == [action |-> "versionResponse", version |-> CACHE_NAME]

\* { action: 'versionResponse', version: APP_VERSION }
VersionResponse == [action |-> "versionResponse", version |-> APP_VERSION]

\* The identities of the stores of the origin.
StoreIds(c) == {c[k].id : k \in DOMAIN c}

\* The host delivers a message event; the three ifs of the handler run.
\* A message without data makes message.action throw.  A CLEAR_CACHE job
\* remembers which stores existed when its message was handled.
MessageEvent ==
    /\ phase \in {"installing", "installed", "activating", "activated"}
    /\ Events < MaxEvents
    /\ msgs' = msgs + 1
    /\ \E k \in MsgKinds :
        /\ msgError' = (msgError \/ k = "nodata")
        /\ skipWaiting' = (skipWaiting \/ k = "skipWaiting")
        /\ clears' = IF k = "CLEAR_CACHE"
                     THEN Append(clears, [pc |-> "keys", pending |-> {},
                                          existing |-> StoreIds(caches)])
                     ELSE clears
        /\ posted' = IF k = "versionCheck" THEN Append(posted, VersionResponse)
                     ELSE posted
        /\ lastMsg' = k
    /\ UNCHANGED <<page, installs, caches, nextId, phase, inst, act, claimed, fetching, pushing>>

ClearKeys_StaleOnly(j) ==
    /\ clears[j].pc = "keys"
    /\ clears' = [clears EXCEPT ![j] = [@ EXCEPT !.pc = "deleting",
                      !.pending = {n \in CacheKeys(caches) : IsStale(n)}]]
    /\ UNCHANGED <<caches, nextId, lifecycle, fetching, msgs, lastMsg, posted, msgError, pushing>>

\* CLEAR_CACHE: caches.keys() resolves; a caches.delete per name is started
ClearKeys(j) ==
    /\ clears[j].pc = "keys"
    /\ clears' = [clears EXCEPT ![j] = [@ EXCEPT !.pc = "deleting",
                                                 !.pending = CacheKeys(caches)]]
    /\ UNCHANGED <<caches, nextId, lifecycle, fetching, msgs, lastMsg, posted, msgError, pushing>>

\* CLEAR_CACHE: one of the started deletions completes
ClearDelete(j) ==
    /\ clears[j].pc = "deleting"
    /\ \E n \in clears[j].pending :
        /\ caches' = CacheDelete(caches, n)
        /\ clears' = [clears EXCEPT ![j].pending = @ \ {n}]
    /\ UNCHANGED <<nextId, lifecycle, fetching, msgs, lastMsg, posted, msgError, pushing>>

\* ----------------------------------------------------------- push handler
\* The arguments of showNotification: data.title || 'ShopEasy' and
\* data: { url: data.url || '/' }
Notification(d) ==
    [title |-> IF d.title = "" THEN "ShopEasy" ELSE d.title,
     url   |-> IF d.url = "" THEN "/" ELSE d.url]

\* The host delivers a push event to the active instance.  Without data the
\* handler does nothing; event.data.json() throws on data that is not JSON,
\* data.body throws on null, and neither is caught.
PushEvent ==
    /\ phase = "activated" \/ installs > 1
    /\ Events < MaxEvents
    /\ pushes' = pushes + 1
    /\ \E p \in PushPayloads :
        /\ lastPush' = p
        /\ pushError' = (pushError \/ p.kind \in {"malformed", "null"})
        /\ shown' = IF p \in PushObjects THEN Append(shown, Notification(p)) ELSE shown
    /\ UNCHANGED <<caches, nextId, lifecycle, fetching, messaging>>

\* ------------------------------------------------------------------ Next
Next ==
    \/ HostInstall
    \/ HostReinstall
    \/ InstallOpen
    \/ InstallAddAllOk
    \/ InstallAddAllFail
    \/ InstallSkipWaiting
    \/ InstallCatch
    \/ HostInstallSettled
    \/ HostActivate
    \/ ActivateKeys
    \/ ActivateDelete
    \/ ActivateClaim
    \/ HostActivated
    \/ FetchEvent
    \/ \E i \in DOMAIN tasks : TaskMatch(i)
    \/ \E i \in DOMAIN tasks : TaskFetchOk(i)
    \/ \E i \in DOMAIN tasks : TaskFetchFail(i)
    \/ \E i \in DOMAIN tasks : TaskOpenOk(i)
    \/ \E i \in DOMAIN tasks : TaskOpenFail(i)
    \/ \E i \in DOMAIN tasks : TaskFallback(i)
    \/ \E i \in DOMAIN tasks : TaskRoot(i)
    \/ \E i \in DOMAIN tasks : TaskLogo(i)
    \/ PutSettles
    \/ MessageEvent
    \/ \E j \in DOMAIN clears : ClearKeys(j)
    \/ \E j \in DOMAIN clears : ClearDelete(j)
    \/ PushEvent

Spec == Init /\ [][Next]_vars

\* ================================================================ claims
Tasks == DOMAIN tasks

\* The network fetch of task t failed / succeeded.
FetchFailed(t)    == t.fetched /\ t.net = Absent
FetchSucceeded(t) == t.fetched /\ t.net # Absent

\* The store of that name, or a marker when there is none.
StoreOf(c, name) ==
    IF name \in StoreNames(c) THEN c[StoreIndex(c, name)].entries
    ELSE [u \in {RootUrl} |-> Absent]

\* ---------------------------------------------------------------- C1
\* C1: if a manifest asset fails to fetch during install, the install task
\* reports failure to the host (the waitUntil promise does not resolve),
\* and the generation never reaches Waiting, Activating or Active.
C1_FailedInstallIsReported ==
    inst.assetFailed =>
        /\ inst.pc # "resolved"
        /\ phase \notin {"installed", "activating", "activated"}

\* ---------------------------------------------------------------- C2
\* C2: when the activate handler completes, whatever stores were present
\* beforehand, every store that remains is the current static store or the
\* dynamic store; and no step of the activate handler changes the dynamic
\* store or its entries.
C2_ActivateCleansUp ==
    [][ act' # act =>
          /\ StoreOf(caches', DYNAMIC_CACHE) = StoreOf(caches, DYNAMIC_CACHE)
          /\ (DYNAMIC_CACHE \in StoreNames(caches')) = (DYNAMIC_CACHE \in StoreNames(caches))
          /\ (act'.pc = "resolved" =>
                StoreNames(caches') \subseteq {CACHE_NAME, DYNAMIC_CACHE}) ]_vars

\* The activate handler found both stale stores and a populated dynamic
\* store, every deletion it started has completed, and the dynamic store is
\* still there with its entry beside the static store.
C2_Witness ==
    /\ act.pc = "deleting" /\ act.pending = {}
    /\ {OLD_CACHE, OTHER_CACHE, DYNAMIC_CACHE} \subseteq act.names
    /\ StoreNames(caches) = {CACHE_NAME, DYNAMIC_CACHE}
    /\ StoreOf(caches, DYNAMIC_CACHE) = DynamicStore.entries

\* ---------------------------------------------------------------- C3
\* C3: every entry held in any named store was captured from a response
\* with a success status.
C3_OnlySuccessStored ==
    \A i \in DOMAIN caches : \A u \in DOMAIN caches[i].entries :
        Ok(caches[i].entries[u])

\* ---------------------------------------------------------------- C4
IsImageType(ct) == ct \in {"image/png", "image/jpg", "image/jpeg", "image/gif",
                           "image/svg", "image/webp", "image/svg+xml"}

\* C4: an Image-Cache-First task that found no entry for its request and
\* whose fetch failed returns a successful response with an image content
\* type: never undefined, never a failure.  (Stated for generations whose
\* install stored the manifest, so that a violation does not rest on C1.)
C4_ImageFallbackAlways ==
    \A i \in Tasks :
        LET t == tasks[i] IN
        (/\ t.strategy = "imageCacheFirst" /\ t.pc = "done" /\ ~t.hit /\ FetchFailed(t)
         /\ ~inst.assetFailed)
            => /\ t.outcome = "response"
               /\ Ok(t.resp)
               /\ IsImageType(t.resp.ctype)

\* ---------------------------------------------------------------- C5
\* C5 as stated: every Cache-First task (stylesheet, script or font) that
\* found no entry and whose fetch failed returns a fallback response and
\* does not propagate the failure.
C5_CacheFirstNeverThrows ==
    \A i \in Tasks :
        LET t == tasks[i] IN
        (t.strategy = "cacheFirst" /\ t.pc = "done" /\ ~t.hit /\ FetchFailed(t))
            => /\ t.outcome = "response"
               /\ t.resp \in {CssFallback, JsFallback}

\* C5 amended: a Cache-First task that found no entry and whose fetch
\* failed returns the empty stylesheet for a stylesheet request and the
\* no-op script for a script request; for a font request it propagates the
\* failure.
C5_CacheFirstFallback ==
    \A i \in Tasks :
        LET t == tasks[i] IN
        (t.strategy = "cacheFirst" /\ t.pc = "done" /\ ~t.hit /\ FetchFailed(t))
            => /\ t.req.url.ext = "css" =>
                    (t.outcome = "response" /\ t.resp = Resp(200, "text/css", EmptyBody))
               /\ t.req.url.ext = "js" =>
                    (t.outcome = "response"
                     /\ t.resp = Resp(200, "application/javascript", NoopScriptBody))
               /\ t.req.url.ext \in {"woff", "woff2"} => t.outcome = "error"

\* One stylesheet task got the empty stylesheet and one font task failed.
C5_Witness ==
    \E i, j \in Tasks :
        /\ tasks[i].strategy = "cacheFirst" /\ tasks[j].strategy = "cacheFirst"
        /\ FetchFailed(tasks[i]) /\ FetchFailed(tasks[j])
        /\ tasks[i].req.url.ext = "css" /\ tasks[i].resp = CssFallback
        /\ tasks[j].req.url.ext = "woff2" /\ tasks[j].outcome = "error"

\* ---------------------------------------------------------------- C6
\* C6: in every strategy, a task whose network fetch succeeded returns that
\* network response, whether or not opening the dynamic store or writing
\* into it fails.
C6_StoreFailureHarmless ==
    \A i \in Tasks :
        LET t == tasks[i] IN
        (t.pc = "done" /\ FetchSucceeded(t))
            => (t.outcome = "response" /\ t.resp = t.net)

\* ---------------------------------------------------------------- C7
\* C7: when a Cache-First or Image-Cache-First task looks up its request
\* and a store holds an entry for it, the task returns that entry and
\* issues no network fetch: it is finished by the lookup, the fetch-call
\* counter does not move, and a finished task never runs again.
C7_HitMeansNoFetch ==
    [][ \A i \in Tasks :
          /\ (tasks[i].pc = "match" /\ tasks'[i] # tasks[i]
              /\ CacheMatch(caches, tasks[i].req.url) # Absent)
               => /\ tasks'[i].pc = "done"
                  /\ tasks'[i].outcome = "response"
                  /\ tasks'[i].resp = CacheMatch(caches, tasks[i].req.url)
                  /\ ~tasks'[i].fetched
                  /\ fetchCount' = fetchCount
          /\ tasks[i].pc = "done" => tasks'[i] = tasks[i] ]_vars

\* A stylesheet was fetched and stored by one task, and a second task for
\* the same stylesheet was answered from the store: one fetch in all.
C7_Witness ==
    \E i, j \in Tasks :
        /\ i # j
        /\ tasks[i].req = Req("GET", FALSE, StyleUrl) /\ tasks[j].req = tasks[i].req
        /\ tasks[i].fetched /\ tasks[j].hit /\ tasks[j].pc = "done"
        /\ tasks[j].resp = tasks[i].net
        /\ fetchCount = 1

\* ---------------------------------------------------------------- C8
\* The strategy the routing table of section 4.2 gives a GET descriptor
\* (Accept header, URL path extension, hostname), first match first.
TableRoute(r) ==
    IF r.html THEN "networkFirst"
    ELSE IF r.url.ext \in {"css", "js", "woff", "woff2"} THEN "cacheFirst"
    ELSE IF r.url.ext \in {"png", "jpg", "jpeg", "gif", "svg", "webp"}
         THEN "imageCacheFirst"
    ELSE IF r.url.host \in {FirestoreHost, StorageHost}
         THEN "networkFirstWithCacheUpdate"
    ELSE "networkFirst"

\* C8: the strategy of every task is the one the table gives its
\* descriptor, so that equal descriptors get equal strategies.
C8_RouteFollowsTable ==
    \A i \in Tasks : tasks[i].strategy = TableRoute(tasks[i].req)

\* ---------------------------------------------------------------- C9
\* C9: a fetch event with a non-GET request is declined: no task is
\* created for it (every task is for a GET request), no fetch is issued,
\* and no store is read into a result, created or written.
C9_NonGetBypassed ==
    [][ /\ declined' # declined =>
             UNCHANGED <<caches, nextId, tasks, puts, fetchCount>>
        /\ \A i \in DOMAIN tasks' : tasks'[i].req.method = "GET" ]_vars

\* A POST was declined while the dynamic store holds an entry for its URL.
C9_Witness ==
    /\ declined = 1
    /\ OrdersUrl \in DOMAIN StoreOf(caches, DYNAMIC_CACHE)
    /\ tasks = <<>>

C11_CacheUpdateFallback ==
    [][ \A i \in Tasks :
          LET t == tasks[i]
              n == tasks'[i]
              m == CacheMatch(caches, t.req.url)
          IN  (/\ t.strategy = "networkFirstWithCacheUpdate" /\ FetchFailed(t)
               /\ t.pc = "fallback" /\ n # t) =>
                /\ caches' = caches /\ puts' = puts
                /\ n.pc = "done"
                /\ m # Absent => (n.outcome = "response" /\ n.resp = m)
                /\ (m = Absent /\ t.req.url.host = FirestoreHost) =>
                      /\ n.outcome = "response"
                      /\ Ok(n.resp) /\ n.resp.body = EmptyJsonArray
      ]_vars

\* Offline and with no stored entry, a listing request was answered by the
\* empty listing while a storage-bucket request failed.
C11_Witness ==
    \E i, j \in Tasks :
        /\ tasks[i].req = Req("GET", FALSE, ProductsUrl) /\ FetchFailed(tasks[i])
        /\ tasks[i].outcome = "response" /\ tasks[i].resp = EmptyListing
        /\ ProductsUrl \notin DOMAIN StoreOf(caches, DYNAMIC_CACHE)
        /\ tasks[j].req = Req("GET", FALSE, BucketUrl) /\ FetchFailed(tasks[j])
        /\ tasks[j].outcome = "error"

\* --------------------------------------------------------------- C12
\* C12: round trip through the dynamic store.  When a
\* Network-First-With-Store-Update task whose fetch failed finds an entry
\* for its request, the response it returns is, in status, type and body,
\* the response that an earlier task for the same request fetched from the
\* network and whose write has completed.
C12_RoundTrip ==
    [][ \A j \in Tasks :
          LET t == tasks[j]
              n == tasks'[j]
          IN  (/\ t.strategy = "networkFirstWithCacheUpdate" /\ FetchFailed(t)
               /\ t.pc = "fallback" /\ n # t
               /\ CacheMatch(caches, t.req.url) # Absent) =>
                /\ n.pc = "done" /\ n.outcome = "response"
                /\ \E i \in Tasks \ {j} :
                      /\ tasks[i].req = t.req /\ FetchSucceeded(tasks[i])
                      /\ ~tasks[i].storeFailed
                      /\ \A p \in puts : p.task # i
                      /\ n.resp.status = tasks[i].net.status
                      /\ n.resp.body = tasks[i].net.body
                      /\ n.resp = tasks[i].net
      ]_vars

\* A bucket request was fetched and stored, and its offline follow-up
\* returned the same response.
C12_Witness ==
    \E i, j \in Tasks :
        /\ tasks[i].req = Req("GET", FALSE, BucketUrl) /\ FetchSucceeded(tasks[i])
        /\ tasks[i].pc = "done" /\ tasks[i].resp = tasks[i].net
        /\ tasks[j].req = tasks[i].req /\ FetchFailed(tasks[j])
        /\ tasks[j].pc = "done" /\ tasks[j].outcome = "response"
        /\ tasks[j].resp = tasks[i].net
        /\ tasks[j].resp.body = MaxBody
        /\ puts = {}

\* --------------------------------------------------------------- C13
\* C13: install is idempotent.  Whenever cache.addAll of an install run
\* resolves, be it the first run or a later one over the store an earlier
\* run filled, the static store it wrote to is the only store of that name
\* and holds exactly one entry per manifest URL, every one a successful
\* response fetched by this run.
C13_InstallIdempotent ==
    [][ (inst.pc = "addAll" /\ inst'.pc = "skipWaiting") =>
          LET named == {k \in DOMAIN caches' : caches'[k].name = CACHE_NAME}
          IN  (\E k \in named : caches'[k].id = inst.id) =>
                /\ Cardinality(named) = 1
                /\ \A k \in named :
                      /\ DOMAIN caches'[k].entries = STATIC_ASSETS
                      /\ \E b \in Bodies : \A u \in STATIC_ASSETS :
                            caches'[k].entries[u] = Resp(200, ServerType(u), b)
      ]_vars

\* Install ran twice, both times with every asset fetched, with no store
\* deleted in between: the static store holds the manifest once.
C13_Witness ==
    /\ installs = 2 /\ inst.pc = "resolved" /\ ~inst.assetFailed
    /\ msgs = 0
    /\ \E k \in DOMAIN caches :
        /\ caches[k].name = CACHE_NAME /\ caches[k].id = inst.id
        /\ DOMAIN caches[k].entries = STATIC_ASSETS
        /\ \A u \in STATIC_ASSETS : caches[k].entries[u].body = MaxBody

\* --------------------------------------------------------------- C14
\* C14: once every deletion started by a CLEAR_CACHE message has
\* completed, none of the stores that existed when the message was handled
\* remains, the static and the dynamic store included.  (A store opened
\* since may bear the name of a deleted one; it is another store.)
C14_ClearDeletesAll ==
    \A j \in DOMAIN clears :
        (clears[j].pc = "deleting" /\ clears[j].pending = {}) =>
            StoreIds(caches) \cap clears[j].existing = {}

\* A CLEAR_CACHE handled after install and a fetch finished its deletions:
\* the static store and the dynamic store it found are gone.
C14_Witness ==
    \E j \in DOMAIN clears :
        /\ clears[j].pc = "deleting" /\ clears[j].pending = {}
        /\ inst.id \in clears[j].existing
        /\ DynamicStore.id \in clears[j].existing
        /\ CACHE_NAME \notin StoreNames(caches)
        /\ \E i \in Tasks : tasks[i].pc = "done"

\* --------------------------------------------------------------- C15
\* C15: a versionCheck message makes the handler post exactly one message
\* to its source, a versionResponse carrying APP_VERSION, and it changes no
\* store: it creates, deletes and writes none and starts no deletion.
C15_VersionCheckReplies ==
    [][ (msgs' = msgs + 1 /\ lastMsg' = "versionCheck") =>
          /\ Len(posted') = Len(posted) + 1
          /\ SubSeq(posted', 1, Len(posted)) = posted
          /\ posted'[Len(posted')] =
                [action |-> "versionResponse", version |-> APP_VERSION]
          /\ caches' = caches /\ nextId' = nextId
          /\ puts' = puts /\ clears' = clears
          /\ msgError' = msgError
      ]_vars

\* A version query was answered while stores existed.
C15_Witness ==
    /\ lastMsg = "versionCheck" /\ msgs = 1
    /\ posted = <<[action |-> "versionResponse", version |-> "1.0.1"]>>
    /\ caches # <<>>
    /\ ~msgError

\* --------------------------------------------------------------- C16
\* C16 as stated: a message that is none of skipWaiting, CLEAR_CACHE and
\* versionCheck, a message without data or without action included, is
\* ignored: the handler raises no error, posts nothing, does not call
\* skipWaiting, starts no deletion and leaves every store as it was.
C16_UnrecognizedIgnored ==
    [][ (msgs' = msgs + 1 /\ lastMsg' \in {"ping", "nodata"}) =>
          /\ msgError' = msgError
          /\ posted' = posted
          /\ skipWaiting' = skipWaiting
          /\ clears' = clears
          /\ caches' = caches /\ puts' = puts
      ]_vars

\* --------------------------------------------------------------- C17
\* C17 as stated: a push whose data cannot be parsed, or on whose parsed
\* value a field access fails, shows no notification and the handler
\* raises no error; a push whose data parses to an object shows exactly one
\* notification, carrying the url of the payload, or "/" when it has none.
C17_PushNeverThrows ==
    [][ pushes' = pushes + 1 =>
          /\ lastPush'.kind \in {"malformed", "null"} =>
                (shown' = shown /\ pushError' = pushError)
          /\ lastPush' \in PushObjects =>
                /\ Len(shown') = Len(shown) + 1
                /\ SubSeq(shown', 1, Len(shown)) = shown
                /\ shown'[Len(shown')].url =
                      (IF lastPush'.url = "" THEN "/" ELSE lastPush'.url)
                /\ pushError' = pushError
      ]_vars

\* --------------------------------------------------------------- C18
\* C18 as stated: the activate phase of a generation begins only after its
\* install completed successfully, with the manifest stored; and
\* clients.claim() is called only after every deletion of the activate
\* handler completed, when no store but the static and the dynamic one is
\* left.
C18_LifecycleOrdering ==
    /\ phase \in {"activating", "activated"} =>
          (inst.pc = "resolved" /\ ~inst.assetFailed)
    /\ claimed =>
          /\ act.pc = "resolved" /\ act.pending = {}
          /\ StoreNames(caches) \subseteq {CACHE_NAME, DYNAMIC_CACHE}

\* --------------------------------------------------------------- C19
\* C19: request handling never modifies the static store.  No step of a
\* fetch event, of a strategy task or of a cache.put creates, deletes or
\* changes a store named CACHE_NAME; every write a strategy issues is
\* addressed to a store opened as DYNAMIC_CACHE; and whatever the step, a
\* static store holds either nothing (install has not stored, or failed
\* to) or exactly the manifest entries an install run stored.
C19_StaticStoreImmutable ==
    [][ LET Static(c) == {c[k] : k \in {x \in DOMAIN c : c[x].name = CACHE_NAME}}
        IN  /\ (tasks' # tasks \/ puts' # puts \/ declined' # declined) =>
                  /\ Static(caches') = Static(caches)
                  /\ \A p \in puts' : \A k \in DOMAIN caches' :
                        caches'[k].id = p.id => caches'[k].name = DYNAMIC_CACHE
            /\ \A st \in Static(caches') :
                  \/ st.entries = NoEntries
                  \/ \E b \in Bodies : st.entries = ManifestEntries(b)
      ]_vars

\* A strategy's write has landed in the dynamic store while the static
\* store holds the manifest as installed.
C19_Witness ==
    /\ \E b \in Bodies : StoreOf(caches, CACHE_NAME) = ManifestEntries(b)
    /\ puts = {}
    /\ \E i \in Tasks :
        /\ tasks[i].pc = "done" /\ FetchSucceeded(tasks[i]) /\ ~tasks[i].storeFailed
        /\ tasks[i].req.url \in DOMAIN StoreOf(caches, DYNAMIC_CACHE)
        /\ StoreOf(caches, DYNAMIC_CACHE)[tasks[i].req.url] = tasks[i].net
        /\ tasks[i].req.url \notin STATIC_ASSETS

\* --------------------------------------------------------------- C20
\* C20 as stated: of two tasks for the same request whose fetches both
\* succeeded, each returns its own network response; and every write that
\* completes leaves the dynamic store it was addressed to with one entry
\* for the key, the response of that write, so that the store ends with
\* the response of the write that completed last.
C20_ConcurrentWrites ==
    [][ /\ \A i, j \in DOMAIN tasks' :
              LET t == tasks'[i] IN
              (/\ i # j /\ tasks'[j].req = t.req
               /\ FetchSucceeded(t) /\ FetchSucceeded(tasks'[j])
               /\ t.pc = "done") =>
                  (t.outcome = "response" /\ t.resp = t.net)
        /\ \A p \in puts \ puts' :
              caches' # caches =>
                  \E k \in DOMAIN caches' :
                      /\ caches'[k].id = p.id /\ caches'[k].name = DYNAMIC_CACHE
                      /\ p.url \in DOMAIN caches'[k].entries
                      /\ caches'[k].entries[p.url] = p.resp
      ]_vars

\* ================================================ the worker of src/sw.js
\* The fetch handler of the worker in src/sw.js, once that worker is active.
\* It shares the store names and the manifest of the worker above.

\* A host whose name continues the worker's own: its URLs start with the
\* string self.location.origin although their origin is another one.
LookalikeHost == "shop.example.evil.test"

LookPageUrl == Url(LookalikeHost, "promo", "", FALSE)
LookCssUrl  == Url(LookalikeHost, "style", "css", FALSE)

\* event.request.url.startsWith(self.location.origin): a comparison of
\* strings, which holds for the worker's host and for every host whose name
\* starts with it.
StartsWithOrigin(u) == u.host \in {SelfHost, LookalikeHost}

\* Whether the URL is of the worker's origin.
SameOrigin(u) == u.host = SelfHost

\* Response.type of what fetch resolves with.
RespType(u) == IF SameOrigin(u) THEN "basic" ELSE "cors"

\* !url.startsWith(self.location.origin) || method !== 'GET': return
SwDeclines(r) == ~StartsWithOrigin(r.url) \/ r.method # "GET"

SwAssetExts == {"css", "js", "png", "jpg", "jpeg", "gif", "svg"}

\* The three ifs of the handler behind the guard; with none taken the
\* handler returns without event.respondWith.
SwRoute(r) ==
    IF r.html THEN "html"
    ELSE IF UrlEndsWithExt(r.url, SwAssetExts) THEN "asset"
    ELSE IF r.url.host = FirestoreHost \/ r.url.host = StorageHost THEN "firebase"
    ELSE "none"

SwNewTask(r) ==
    [NewTask(r) EXCEPT !.strategy = SwRoute(r),
                       !.pc = IF SwRoute(r) = "html" THEN "fetch" ELSE "match"]

SwNavigation == { Req("GET", TRUE, RootUrl), Req("GET", TRUE, AboutUrl),
                  Req("GET", TRUE, LookPageUrl), Req("POST", FALSE, OrdersUrl) }
SwAssets     == { Req("GET", FALSE, StyleUrl), Req("GET", FALSE, PhotoUrl),
                  Req("GET", FALSE, LookCssUrl), Req("GET", FALSE, AppJsUrl) }
SwData       == { Req("GET", FALSE, ProductsUrl), Req("GET", FALSE, BucketUrl),
                  Req("GET", FALSE, OrdersUrl), Req("GET", TRUE, AboutUrl) }

SwPages == {SwNavigation, SwAssets, SwData}

\* The stores an active worker may find: none (after CLEAR_CACHE), the
\* static store its install filled, and a dynamic store from before.
SwStaticStore(b) == Store(CACHE_NAME, 4, ManifestEntries(b))

SwInitialCaches ==
    {<<>>} \cup {<<SwStaticStore(b)>> : b \in Bodies}
           \cup {<<DynamicStore, SwStaticStore(b)>> : b \in Bodies}

SwInit ==
    /\ page \in SwPages
    /\ caches \in SwInitialCaches
    /\ nextId = 5
    /\ phase = "activated"
    /\ installs = 1
    /\ inst = [pc |-> "resolved", id |-> 4, assetFailed |-> FALSE]
    /\ act = [pc |-> "resolved", names |-> {}, pending |-> {}]
    /\ skipWaiting = TRUE
    /\ claimed = TRUE
    /\ tasks = <<>>
    /\ puts = {}
    /\ fetchCount = 0
    /\ declined = 0
    /\ clears = <<>>
    /\ msgs = 0
    /\ lastMsg = "none"
    /\ posted = <<>>
    /\ msgError = FALSE
    /\ pushes = 0
    /\ lastPush = NoPush
    /\ shown = <<>>
    /\ pushError = FALSE

\* The host dispatches a fetch event; the handler returns at the guard or
\* behind the last if, or calls event.respondWith.
SwFetchEvent ==
    /\ Events < MaxEvents
    /\ \E r \in page :
        IF SwDeclines(r) \/ SwRoute(r) = "none"
        THEN /\ declined' = declined + 1
             /\ UNCHANGED tasks
        ELSE /\ tasks' = Append(tasks, SwNewTask(r))
             /\ UNCHANGED declined
    /\ UNCHANGED <<caches, nextId, lifecycle, puts, fetchCount, messaging, pushing>>

\* caches.open(DYNAMIC_CACHE).then(cache => cache.put(request, clone)),
\* started without being awaited: id 0 until the open resolves.
SwStore(i, r) == [task |-> i, id |-> 0, url |-> tasks[i].req.url, resp |-> r]

\* Whether the branch stores what it fetched: the asset branch returns at
\* !response || response.status !== 200 || response.type !== 'basic'.
SwStores(t, r) ==
    IF t.strategy = "asset" THEN r.status = 200 /\ RespType(t.req.url) = "basic"
    ELSE TRUE

\* asset and firebase branches: caches.match(event.request) resolves.  The
\* firebase branch starts its fetch whatever was found and returns
\* cachedResponse || fetchPromise.
SwMatch(i) ==
    /\ tasks[i].pc = "match"
    /\ LET m == CacheMatch(caches, tasks[i].req.url)
       IN  tasks' = [tasks EXCEPT ![i] =
              IF m = Absent THEN [@ EXCEPT !.pc = "fetch"]
              ELSE IF @.strategy = "asset" THEN Returns([@ EXCEPT !.hit = TRUE], m)
              ELSE [@ EXCEPT !.hit = TRUE, !.outcome = "response", !.resp = m,
                             !.pc = "refresh"]]
    /\ UNCHANGED <<caches, nextId, lifecycle, puts, fetchCount, declined, messaging,
                   pushing>>

\* fetch(event.request) resolves: the response is stored where the branch
\* says so, and returned unless an entry was returned already.
SwFetchOk(i) ==
    /\ tasks[i].pc \in {"fetch", "refresh"}
    /\ \E r \in NetResponses(tasks[i].req.url) :
        /\ tasks' = [tasks EXCEPT ![i] =
              LET t == [@ EXCEPT !.net = r, !.fetched = TRUE]
              IN  IF @.pc = "refresh" THEN [t EXCEPT !.pc = "done"] ELSE Returns(t, r)]
        /\ puts' = IF SwStores(tasks[i], r) THEN puts \cup {SwStore(i, r)} ELSE puts
    /\ fetchCount' = fetchCount + 1
    /\ UNCHANGED <<caches, nextId, lifecycle, declined, messaging, pushing>>

\* fetch(event.request) rejects: the html branch looks the request up; the
\* asset branch looks logo.png up for /\.(png|jpg|jpeg|gif)$/ and returns
\* nothing otherwise; the firebase branch returns nothing.
SwFetchFail(i) ==
    /\ tasks[i].pc \in {"fetch", "refresh"}
    /\ tasks' = [tasks EXCEPT ![i] =
          LET t == [@ EXCEPT !.fetched = TRUE]
          IN  IF @.pc = "refresh" THEN [t EXCEPT !.pc = "done"]
              ELSE IF @.strategy = "html" THEN [t EXCEPT !.pc = "fallback"]
              ELSE IF @.strategy = "asset"
                      /\ UrlEndsWithExt(@.req.url, {"png", "jpg", "jpeg", "gif"})
                   THEN [t EXCEPT !.pc = "logo"]
              ELSE Returns(t, Absent)]
    /\ fetchCount' = fetchCount + 1
    /\ UNCHANGED <<caches, nextId, lifecycle, puts, declined, messaging, pushing>>

\* html branch: caches.match(event.request) resolves;
\* cachedResponse || caches.match('/')
SwFallback(i) ==
    /\ tasks[i].pc = "fallback"
    /\ LET m == CacheMatch(caches, tasks[i].req.url)
       IN  tasks' = [tasks EXCEPT ![i] =
              IF m # Absent THEN Returns(@, m) ELSE [@ EXCEPT !.pc = "root"]]
    /\ UNCHANGED <<caches, nextId, lifecycle, puts, fetchCount, declined, messaging,
                   pushing>>

\* caches.match('/') or caches.match('logo.png') resolves
SwLookup(i) ==
    /\ tasks[i].pc \in {"root", "logo"}
    /\ tasks' = [tasks EXCEPT ![i] =
          Returns(@, CacheMatch(caches, IF @.pc = "root" THEN RootUrl ELSE LogoUrl))]
    /\ UNCHANGED <<caches, nextId, lifecycle, puts, fetchCount, declined, messaging,
                   pushing>>

\* caches.open(DYNAMIC_CACHE) of a store job resolves
SwOpenOk ==
    /\ \E p \in puts :
        /\ p.id = 0
        /\ caches' = CacheOpen(caches, DYNAMIC_CACHE, nextId)
        /\ nextId' = IF DYNAMIC_CACHE \in StoreNames(caches) THEN nextId ELSE nextId + 1
        /\ puts' = (puts \ {p}) \cup
                      {[p EXCEPT !.id = caches'[StoreIndex(caches', DYNAMIC_CACHE)].id]}
    /\ UNCHANGED <<lifecycle, tasks, fetchCount, declined, messaging, pushing>>

\* caches.open(DYNAMIC_CACHE) of a store job rejects, unobserved
SwOpenFail ==
    /\ \E p \in puts : p.id = 0 /\ puts' = puts \ {p}
    /\ UNCHANGED <<caches, nextId, lifecycle, tasks, fetchCount, declined, messaging,
                   pushing>>

\* cache.put of a store job settles: the entry is written, or the write
\* fails unobserved.
SwPutSettles ==
    /\ \E p \in puts :
        /\ p.id # 0
        /\ puts' = puts \ {p}
        /\ \/ caches' = CachePut(caches, p.id, p.url, p.resp)
           \/ UNCHANGED caches
    /\ UNCHANGED <<nextId, lifecycle, tasks, fetchCount, declined, messaging, pushing>>

SwNext ==
    \/ SwFetchEvent
    \/ \E i \in DOMAIN tasks : SwMatch(i)
    \/ \E i \in DOMAIN tasks : SwFetchOk(i)
    \/ \E i \in DOMAIN tasks : SwFetchFail(i)
    \/ \E i \in DOMAIN tasks : SwFallback(i)
    \/ \E i \in DOMAIN tasks : SwLookup(i)
    \/ SwOpenOk
    \/ SwOpenFail
    \/ SwPutSettles

SpecSw == SwInit /\ [][SwNext]_vars

\* --------------------------------------------------------------- C21
\* C21 as stated: the fetch handler of src/sw.js responds to no request of
\* another origin and stores no response for one: every task, every write
\* under way and every entry of the dynamic store is for a URL of the
\* worker's own origin, and no request to the Firestore or storage host is
\* ever responded to.
C21_OnlySameOriginStored ==
    /\ \A i \in Tasks : SameOrigin(tasks[i].req.url)
    /\ \A p \in puts : SameOrigin(p.url)
    /\ \A u \in DOMAIN StoreOf(caches, DYNAMIC_CACHE) : SameOrigin(u)

====
